---- MODULE Spec2Model ----
(***************************************************************************)
(* A model of the STUNner Cluster object (internal/object/cluster.go):     *)
(* construction, Reconcile, Route, Close and the read operations, against  *)
(* a shared DNS resolver; and of the monitoring Backend (NewBackend,       *)
(* Reload, Start, Stop).  Addresses are scaled down: an IPv4 address has   *)
(* V4Bits bits, an IPv6 address V6Bits bits, and the IPv4-mapped IPv6      *)
(* range keeps the shape of ::ffff:0:0/96 (zero bits, then one bits, then  *)
(* the IPv4 address).                                                      *)
(***************************************************************************)
EXTENDS Integers, Sequences, FiniteSets, TLC

\* ------------------------------------------------------------------ bounds
MaxEndpoints == 2        \* longest endpoint list of a STATIC configuration
MaxDomains == 2          \* longest endpoint list of a STRICT_DNS configuration
MaxClose == 2            \* consecutive Close calls

\* --------------------------------------------------------------- addresses
\* The host prefix length appended to a bare IPv4 literal ("/32"), scaled.
V4Bits == 2
\* The host prefix length appended to a bare IPv6 literal ("/128"), scaled:
\* V4Bits zero bits, one set bit (the ffff of ::ffff:a.b.c.d), V4Bits bits.
V6Bits == 2 * V4Bits + 1

RECURSIVE Pow2(_)
Pow2(n) == IF n = 0 THEN 1 ELSE 2 * Pow2(n - 1)

\* A net.IP in its 16-byte form, as a number; the IPv4 address x is the
\* IPv4-mapped address Pow2(V4Bits) + x.
Peers == 0 .. (Pow2(V6Bits) - 1)
NoIP == -1

\* net.IP.To4: the 4-byte form of an IPv4 (or IPv4-mapped) address, else nil.
To4(ip) == IF ip >= Pow2(V4Bits) /\ ip < 2 * Pow2(V4Bits) THEN ip - Pow2(V4Bits) ELSE NoIP

\* net.IP.Mask with a CIDR mask of `ones` leading ones over `bits` bits.
MaskIP(ip, ones, bits) == (ip \div Pow2(bits - ones)) * Pow2(bits - ones)

\* net.IP.Equal: two addresses are equal when their canonical forms are.
IPEqual(a, b) == a = b

\* ---------------------------------------------------------------- literals
\* An endpoint string of a configuration: a CIDR literal "addr/len", a bare
\* address, or a host name.  fam is the textual family ("dot" for dotted
\* IPv4 text, "colon" for IPv6 text, which includes ::ffff:a.b.c.d).
Lit(form, fam, addr, len) == [form |-> form, fam |-> fam, addr |-> addr, len |-> len]
HostName(i) == Lit("name", "none", i, 0)

FamBits(fam) == IF fam = "dot" THEN V4Bits ELSE V6Bits

NoNet == [ok |-> FALSE, bits |-> 0, ip |-> 0, ones |-> 0]

\* net.ParseCIDR: the network of a CIDR literal (address masked to the
\* prefix), an error for anything else or for a prefix longer than the
\* family allows.
ParseCIDR(e) ==
    IF e.form = "cidr" /\ e.len <= FamBits(e.fam)
    THEN [ok |-> TRUE, bits |-> FamBits(e.fam),
          ip |-> MaskIP(e.addr, e.len, FamBits(e.fam)), ones |-> e.len]
    ELSE NoNet

\* net.ParseIP: the 16-byte form of a bare address literal, nil otherwise.
ParseIP(e) ==
    IF e.form # "ip" THEN NoIP
    ELSE IF e.fam = "dot" THEN Pow2(V4Bits) + e.addr
    ELSE e.addr

\* e + "/32" and e + "/128": the text of a bare address with a prefix.
WithPrefix(e, len) == Lit("cidr", e.fam, e.addr, len)

\* The parse chain of one endpoint literal in Reconcile: <<subnet>> when the
\* literal yields a subnet, << >> when it is skipped.
ParseEndpointDropBare(e) ==
    LET n == ParseCIDR(e) IN IF n.ok THEN << [bits |-> n.bits, ip |-> n.ip, ones |-> n.ones] >> ELSE << >>

ParseEndpoint(e) ==
    LET n == ParseCIDR(e) IN
    IF n.ok THEN << [bits |-> n.bits, ip |-> n.ip, ones |-> n.ones] >>
    ELSE LET a == ParseIP(e) IN
         IF a = NoIP THEN << >>
         ELSE LET e2 == IF To4(a) = NoIP THEN WithPrefix(e, V6Bits) ELSE WithPrefix(e, V4Bits)
                  n2 == ParseCIDR(e2)
              IN IF ~n2.ok THEN << >>
                 ELSE << [bits |-> n2.bits, ip |-> n2.ip, ones |-> n2.ones] >>

\* The STATIC branch of Reconcile: the subnet list rebuilt from the literals.
RECURSIVE StaticEndpoints(_)
StaticEndpoints(es) ==
    IF es = << >> THEN << >> ELSE ParseEndpoint(Head(es)) \o StaticEndpoints(Tail(es))

\* The STATIC branch as a whole: the old list is truncated (c.Endpoints[:0])
\* and the subnets of the literals are appended to it.
StaticBranchKeep(old, es) == old \o StaticEndpoints(es)

StaticBranch(old, es) == SubSeq(old, 1, 0) \o StaticEndpoints(es)

\* net.IPNet.Contains (with networkNumberAndMask): an IPv4-mapped network
\* is compared in its 4-byte form with the tail of its mask.
NetNumber(n) ==
    IF n.bits = V4Bits THEN [bits |-> V4Bits, ip |-> n.ip, ones |-> n.ones]
    ELSE IF To4(n.ip) # NoIP
         THEN [bits |-> V4Bits, ip |-> To4(n.ip),
               ones |-> IF n.ones > V6Bits - V4Bits THEN n.ones - (V6Bits - V4Bits) ELSE 0]
         ELSE [bits |-> V6Bits, ip |-> n.ip, ones |-> n.ones]

Contains(n, peer) ==
    LET nn == NetNumber(n)
        pb == IF To4(peer) # NoIP THEN V4Bits ELSE V6Bits
        pv == IF To4(peer) # NoIP THEN To4(peer) ELSE peer
    IN pb = nn.bits /\ MaskIP(nn.ip, nn.ones, nn.bits) = MaskIP(pv, nn.ones, nn.bits)


\* ---------------------------------------------------------------- resolver
\* The DnsResolver the Cluster is given (internal/resolver is not part of
\* the source at hand; this is its contract).
ValidNames == {HostName(0), HostName(1), HostName(2)}
InvalidNames == {HostName(3)}
AllNames == ValidNames \cup InvalidNames
FlakyNames == {HostName(0)}

\* Register(domain): an error for a structurally invalid name, nil otherwise.
RegisterErr(d) == d \in InvalidNames

\* The addresses the resolver's cache holds for a domain once resolved.
DNSTable(d) ==
    IF d = HostName(0) THEN {Pow2(V4Bits) + 1, 2 * Pow2(V4Bits) + 1}
    ELSE IF d = HostName(1) THEN {Pow2(V4Bits) + 2}
    ELSE IF d = HostName(2) THEN {Pow2(V4Bits) + 1}
    ELSE {}

\* Lookup(domain): the cached addresses, or an error (and no address) for a
\* domain that is not registered or not resolved at the moment.
Lookup(d, reg, unres) ==
    IF d \in reg /\ d \notin unres THEN [hs |-> DNSTable(d), err |-> FALSE]
    ELSE [hs |-> {}, err |-> TRUE]

\* ------------------------------------------------------------------- util
SeqSet(s) == {s[i] : i \in 1 .. Len(s)}

RECURSIVE Without(_, _)
Without(s, S) ==
    IF s = << >> THEN << >>
    ELSE IF Head(s) \in S THEN Without(Tail(s), S)
    ELSE <<Head(s)>> \o Without(Tail(s), S)

RECURSIVE Dedup(_)
Dedup(s) ==
    IF s = << >> THEN << >> ELSE <<Head(s)>> \o Dedup(Without(Tail(s), {Head(s)}))

\* util.Diff(a, b): the elements of a that are not in b (deleted) and the
\* elements of b that are not in a (added).
Diff(a, b) == [deleted |-> Dedup(Without(a, SeqSet(b))), added |-> Dedup(Without(b, SeqSet(a)))]

\* util.Remove(ll, e): ll without e.
Remove(ll, e) == Without(ll, {e})

\* ----------------------------------------------------------- configuration
Conf(name, type, endpoints) ==
    [kind |-> "cluster", name |-> name, type |-> type, endpoints |-> endpoints]
\* A v1alpha1.Config that is not a *ClusterConfig.
OtherConf == [kind |-> "other", name |-> "l1", type |-> "", endpoints |-> << >>]
NoConf == [kind |-> "none", name |-> "", type |-> "", endpoints |-> << >>]

\* ClusterConfig.Validate: the name is not empty and the type literal is one
\* NewClusterType recognises.
ValidateErr(req) == req.name = "" \/ req.type \notin {"STATIC", "STRICT_DNS"}

\* v1alpha1.NewClusterType: the ClusterType of a (validated) type literal.
NewClusterType(lit) == IF lit \in {"STATIC", "STRICT_DNS"} THEN lit ELSE "UNKNOWN"

\* -------------------------------------------------------------- monitoring
\* An endpoint string of the monitoring Backend, by what url.Parse makes of
\* it: malformed text, or a URL with a host, a port and a path, each of
\* which may be empty.
Endpoint(bad, host, port, path) == [bad |-> bad, host |-> host, port |-> port, path |-> path]
\* The empty string.
NoEndpoint == Endpoint(FALSE, "", "", "")
\* A nil *http.Server; an http.Server has a host in its Addr.
NoServer == [Addr |-> [host |-> "", port |-> ""], path |-> ""]

\* url.Parse: an error for malformed text, else the parts of the URL.
ParseURL(endpoint) ==
    [err |-> endpoint.bad, host |-> endpoint.host, port |-> endpoint.port,
     path |-> endpoint.path]

\* NewBackend(endpoint): the Backend and whether an error is returned.  A
\* Backend without server is returned for malformed text (with an error)
\* and for a URL without host; otherwise the server listens on host, or
\* host:port, and serves the path of the URL, /metrics when it has none.
NewBackendOn(endpoint) ==
    LET u == ParseURL(endpoint) IN
    IF u.err THEN [httpServer |-> NoServer, Endpoint |-> endpoint, err |-> TRUE]
    ELSE IF u.host = "" THEN [httpServer |-> NoServer, Endpoint |-> endpoint, err |-> FALSE]
    ELSE [httpServer |-> [Addr |-> [host |-> u.host, port |-> u.port],
                          path |-> IF u.path = "" THEN "/metrics" ELSE u.path],
          Endpoint |-> endpoint, err |-> FALSE]

\* http.Server.Shutdown, as Stop calls it: nothing for a nil server.
Shutdown(server, state) == IF server = NoServer THEN state ELSE "closed"

\* b.Start(): a goroutine is launched that calls ListenAndServe, which
\* binds the address unless the server was shut down or serves already.
Spawn(server, state) == IF server # NoServer /\ state = "idle" THEN "starting" ELSE state

\* The endpoints given to the Backend: the empty string, URLs with a host
\* (two of them on one address), a URL without host, malformed text.
EpMetrics == Endpoint(FALSE, "h1", "8080", "/metrics")
EpStats == Endpoint(FALSE, "h1", "8080", "/stats")
EpPlain == Endpoint(FALSE, "h2", "", "")
EpNoHost == Endpoint(FALSE, "", "", "/metrics")
EpBad == Endpoint(TRUE, "", "", "")
MonEndpoints == {NoEndpoint, EpMetrics, EpStats, EpPlain, EpNoHost, EpBad}

\* ------------------------------------------------------------------- state
VARIABLES
    phase,       \* "none" before construction, "live" once a Cluster exists
    Name,        \* Cluster.Name
    Type,        \* Cluster.Type
    Endpoints,   \* Cluster.Endpoints, a sequence of subnets
    Domains,     \* Cluster.Domains, a sequence of domain names
    Resolver,    \* Cluster.Resolver: "nil" or "dns"
    log,         \* Cluster.log: "nil" or "set"
    registered,  \* the domains the resolver tracks
    unresolved,  \* the tracked domains the resolver has no address for now
    lastOp,      \* the operation that ran last
    opErr,       \* what it returned: "nil", an error, or "panic"
    recConf,     \* the configuration of the Reconcile that ran last, if it was the last operation
    recErr,      \* the error that Reconcile returned
    calls,       \* the Register/Unregister calls the last operation made
    closeUnreg,  \* per domain: Unregister calls made by the current run of Close calls
    closes,      \* length of the current run of consecutive Close calls
    lastPeer,    \* the peer of the most recent Route
    ret,         \* the result of the most recent Route
    newRes,      \* the resolver NewCluster was called with
    again,       \* the last Reconcile repeated the configuration of the call before it
    pcRec,       \* the statement a running Reconcile is at, "idle" when none runs
    recReq,      \* req, the configuration that Reconcile applies
    recTodo,     \* what is left of the loop that Reconcile is in
    recAdded,    \* added, the second result of util.Diff
    permPre,     \* the peers Route admitted before the running Reconcile started
    permPost,    \* the peers Route admits once that Reconcile has run as a whole
    ctorName,    \* the name the Cluster was constructed with
    gotConf,     \* what the last GetConfig returned
    gotName,     \* what the last ObjectName returned
    inspOld,     \* the old configuration of the last Inspect
    inspNew,     \* the new configuration of the last Inspect
    restart,     \* what the last Inspect returned
    monPhase,    \* "none" before NewBackend, "live" once a Backend exists
    bEndpoint,   \* Backend.Endpoint
    httpServer,  \* Backend.httpServer: NoServer or the http.Server
    serving,     \* that server: "idle", "starting", "listening" or "closed"
    started,     \* Start has been called on the Backend and Stop has not
    monOp,       \* the Backend operation that ran last
    monArg,      \* the endpoint the last NewBackend or Reload was given
    monErr       \* whether the last NewBackend, alone or within Reload, returned an error

vars == <<phase, Name, Type, Endpoints, Domains, Resolver, log, registered, unresolved,
          lastOp, opErr, recConf, recErr, calls, closeUnreg, closes, lastPeer, ret,
          newRes, again, pcRec, recReq, recTodo, recAdded, permPre, permPost,
          ctorName, gotConf, gotName, inspOld, inspNew, restart,
          monPhase, bEndpoint, httpServer, serving, started, monOp, monArg, monErr>>

stepVars == <<pcRec, recReq, recTodo, recAdded, permPre, permPost>>

clusterVars == <<Name, Type, Endpoints, Domains, Resolver, log>>

\* What the read-only operations of the Cluster returned.
obsVars == <<gotConf, gotName, inspOld, inspNew, restart>>

\* The monitoring Backend.
monVars == <<monPhase, bEndpoint, httpServer, serving, started, monOp, monArg, monErr>>

\* An operation that is not a read forgets what the reads returned.
ObsReset ==
    /\ gotConf' = NoConf /\ gotName' = ""
    /\ inspOld' = NoConf /\ inspNew' = NoConf /\ restart' = FALSE

\* ---------------------------------------------------------------- Reconcile
Call(fn, d, ok) == [fn |-> fn, d |-> d, ok |-> ok]

\* The loop over `deleted`: Unregister each and remove it from Domains.
RECURSIVE DeleteLoop(_, _)
DeleteLoop(st, deleted) ==
    IF deleted = << >> THEN st
    ELSE LET h == Head(deleted) IN
         DeleteLoop([Domains |-> Remove(st.Domains, h),
                     registered |-> st.registered \ {h},
                     calls |-> Append(st.calls, Call("Unregister", h, TRUE))],
                    Tail(deleted))

\* The loop over `added`: Register each, append it to Domains on success.
RECURSIVE AddLoop(_, _)
AddLoop(st, added) ==
    IF added = << >> THEN st
    ELSE LET h == Head(added) IN
         AddLoop(IF ~RegisterErr(h)
                 THEN [Domains |-> Append(st.Domains, h),
                       registered |-> st.registered \cup {h},
                       calls |-> Append(st.calls, Call("Register", h, TRUE))]
                 ELSE [st EXCEPT !.calls = Append(st.calls, Call("Register", h, FALSE))],
                 Tail(added))

\* The STRICT_DNS branch of Reconcile once the resolver is known to be set.
StrictDNSDomainsRegisterAll(domains, reg, endpoints) ==
    LET d == Diff(domains, endpoints)
        st0 == [Domains |-> domains, registered |-> reg, calls |-> << >>]
    IN AddLoop(DeleteLoop(st0, d.deleted), Dedup(endpoints))

StrictDNSDomains(domains, reg, endpoints) ==
    LET d == Diff(domains, endpoints)
        st0 == [Domains |-> domains, registered |-> reg, calls |-> << >>]
    IN AddLoop(DeleteLoop(st0, d.deleted), d.added)

\* Cluster.Reconcile on the cluster c = [Type, Endpoints, Domains, Resolver,
\* log] with the resolver tracking reg: the error returned and the state
\* left behind.
ReconcileOn(c, reg, conf) ==
    LET same == [err |-> "nil", Type |-> c.Type, Endpoints |-> c.Endpoints,
                 Domains |-> c.Domains, registered |-> reg, calls |-> << >>]
    IN IF conf.kind # "cluster" THEN [same EXCEPT !.err = "ErrInvalidConf"]
       ELSE IF ValidateErr(conf) THEN [same EXCEPT !.err = "ErrValidate"]
       ELSE IF c.log = "nil" THEN [same EXCEPT !.err = "panic"]
       ELSE LET t == NewClusterType(conf.type) IN
            IF t = "STATIC"
            THEN [same EXCEPT !.Type = t, !.Endpoints = StaticBranch(c.Endpoints, conf.endpoints)]
            ELSE IF t = "STRICT_DNS"
            THEN IF c.Resolver = "nil"
                 THEN [same EXCEPT !.Type = t, !.err = "ErrNoResolver"]
                 ELSE [err |-> "nil", Type |-> t, Endpoints |-> c.Endpoints] @@
                      StrictDNSDomains(c.Domains, reg, conf.endpoints)
            ELSE [same EXCEPT !.Type = t]

\* ------------------------------------------------------------------- Route
\* The STATIC branch of Route: some subnet contains the peer.
RouteStaticFirstOnly(endpoints, peer) == endpoints # << >> /\ Contains(endpoints[1], peer)

RouteStaticDefaultAllow(endpoints, peer) ==
    endpoints = << >> \/ \E i \in 1 .. Len(endpoints) : Contains(endpoints[i], peer)

RouteStatic(endpoints, peer) == \E i \in 1 .. Len(endpoints) : Contains(endpoints[i], peer)

\* The STRICT_DNS branch of Route: some domain's lookup holds the peer.
RouteStrictDNSAbortOnError(domains, reg, unres, peer) ==
    \E i \in 1 .. Len(domains) :
        /\ \A j \in 1 .. i : ~Lookup(domains[j], reg, unres).err
        /\ \E n \in Lookup(domains[i], reg, unres).hs : IPEqual(n, peer)

RouteStrictDNS(domains, reg, unres, peer) ==
    \E i \in 1 .. Len(domains) :
        \E n \in Lookup(domains[i], reg, unres).hs : IPEqual(n, peer)

\* Cluster.Route on the cluster c.
RouteOnAnySet(c, reg, unres, peer) ==
    RouteStatic(c.Endpoints, peer) \/ RouteStrictDNS(c.Domains, reg, unres, peer)

RouteOn(c, reg, unres, peer) ==
    IF c.Type = "STATIC" THEN RouteStatic(c.Endpoints, peer)
    ELSE IF c.Type = "STRICT_DNS" THEN RouteStrictDNS(c.Domains, reg, unres, peer)
    ELSE FALSE

\* --------------------------------------------------------------- GetConfig
\* net.IPNet.String: the network number in its shortest form (dotted for an
\* IPv4 or IPv4-mapped network), a slash, the prefix length.
NetString(n) ==
    LET nn == NetNumber(n)
    IN Lit("cidr", IF nn.bits = V4Bits THEN "dot" ELSE "colon", nn.ip, nn.ones)

\* ClusterType.String.
TypeString(t) == IF t \in {"STATIC", "STRICT_DNS"} THEN t ELSE "<unknown>"

\* sort.StringSlice(x): the conversion of x to the type sort.StringSlice,
\* the same elements in the same order (its Sort method is not called).
StringSlice(x) == x

\* Cluster.GetConfig on the cluster c named name.
GetConfigOn(name, c) ==
    [kind |-> "cluster", name |-> name, type |-> TypeString(c.Type),
     endpoints |-> IF c.Type = "STATIC"
                   THEN [i \in 1 .. Len(c.Endpoints) |-> NetString(c.Endpoints[i])]
                   ELSE IF c.Type = "STRICT_DNS" THEN StringSlice(c.Domains)
                   ELSE << >>]

\* ----------------------------------------------------------------- Inspect
\* No restart is needed, whatever the configurations.
InspectOnTypeChange(old, new) == old.type # new.type

InspectOn(old, new) == FALSE

\* ------------------------------------------------------------------- Close
\* The Unregister calls of Close.
RECURSIVE UnregisterAll(_)
UnregisterAll(domains) ==
    IF domains = << >> THEN << >>
    ELSE <<Call("Unregister", Head(domains), TRUE)>> \o UnregisterAll(Tail(domains))

CloseCalls(type, domains) == IF type = "STRICT_DNS" THEN UnregisterAll(domains) ELSE << >>

\* ------------------------------------------------------------------ ghosts
\* The calls of fn for the domain d among cs, failed ones included.
CallCount(cs, fn, d) == Cardinality({i \in 1 .. Len(cs) : cs[i].fn = fn /\ cs[i].d = d})

Count(cs, fn, d) == Cardinality({i \in 1 .. Len(cs) : cs[i].fn = fn /\ cs[i].d = d /\ cs[i].ok})

Zero == [d \in AllNames |-> 0]

Current == [Type |-> Type, Endpoints |-> Endpoints, Domains |-> Domains,
            Resolver |-> Resolver, log |-> log]

\* ------------------------------------------------------------------ inputs
SeqsUpTo(S, n) == UNION {[1 .. k -> S] : k \in 0 .. n}

NetLow == Lit("cidr", "dot", 1, 1)          \* an IPv4 subnet, not in canonical form
HostOne == Lit("ip", "dot", 1, 0)           \* a bare IPv4 address inside NetLow
HostSix == Lit("ip", "colon", 2 * Pow2(V4Bits) + 1, 0)   \* a bare IPv6 address
HostMapped == Lit("ip", "colon", Pow2(V4Bits) + 1, 0)    \* ::ffff:a.b.c.d text
NetMapped == Lit("cidr", "colon", Pow2(V4Bits) + 2, V6Bits - 1)  \* ::ffff:a.b.c.d/127 text
StaticLits == {NetLow, HostOne, HostSix, HostName(0)}

Structural ==
    {OtherConf, Conf("", "STATIC", <<HostOne>>), Conf("c1", "bogus", <<HostOne>>),
     Conf("c2", "STATIC", <<HostOne>>)}

\* Configurations with rich STATIC endpoint lists.
StaticConfs ==
    {Conf("c1", "STATIC", es) : es \in SeqsUpTo(StaticLits, MaxEndpoints)}
    \cup {Conf("c1", "STRICT_DNS", es) : es \in SeqsUpTo({HostName(0), HostName(3)}, 1)}
    \cup Structural

\* Configurations with rich STRICT_DNS endpoint lists.
DNSConfs ==
    {Conf("c1", "STRICT_DNS", es) : es \in SeqsUpTo(AllNames, MaxDomains)}
    \cup {Conf("c1", "STATIC", es) : es \in SeqsUpTo({HostOne, HostName(0)}, 1)}
    \cup Structural

\* Configurations whose STATIC lists hold bare addresses of each textual
\* form: dotted IPv4, IPv6, and IPv4-mapped IPv6 (::ffff:a.b.c.d).
MappedConfs ==
    {Conf("c1", "STATIC", es) : es \in SeqsUpTo({HostOne, HostSix, HostMapped}, MaxEndpoints)}
    \cup {Conf("c1", "STRICT_DNS", es) : es \in SeqsUpTo({HostName(0)}, 1)}
    \cup Structural

\* The configurations Inspect is called with: none, and one of each type.
InspectConfs == {NoConf, Conf("c1", "STATIC", <<HostOne>>), Conf("c1", "STRICT_DNS", <<HostName(0)>>)}

\* The peers the Route action is called with: an IPv6 address inside the
\* subnet HostMapped yields, the IPv4 addresses 1 and 2, the address HostSix.
RoutePeers == {1, Pow2(V4Bits) + 1, Pow2(V4Bits) + 2, 2 * Pow2(V4Bits) + 1}

\* ----------------------------------------------------------------- actions
Init ==
    /\ phase = "none"
    /\ Name = "" /\ Type = "UNKNOWN" /\ Endpoints = << >> /\ Domains = << >>
    /\ Resolver = "nil" /\ log = "nil"
    /\ registered = {} /\ unresolved = {}
    /\ lastOp = "none" /\ opErr = "nil" /\ recConf = NoConf /\ recErr = "nil"
    /\ calls = << >> /\ closeUnreg = Zero /\ closes = 0
    /\ lastPeer = 0 /\ ret = FALSE /\ again = FALSE /\ newRes = "nil"
    /\ pcRec = "idle" /\ recReq = NoConf /\ recTodo = << >> /\ recAdded = << >>
    /\ permPre = {} /\ permPost = {}
    /\ ctorName = "" /\ gotConf = NoConf /\ gotName = ""
    /\ inspOld = NoConf /\ inspNew = NoConf /\ restart = FALSE
    /\ monPhase = "none" /\ bEndpoint = NoEndpoint /\ httpServer = NoServer
    /\ serving = "idle" /\ started = FALSE
    /\ monOp = "none" /\ monArg = NoEndpoint /\ monErr = FALSE

\* NewCluster(conf, resolver, logger).
NewClusterKeepsOnError(conf, res) ==
    /\ pcRec = "idle"
    /\ UNCHANGED <<stepVars, monVars>>
    /\ ObsReset
    /\ phase = "none"
    /\ lastOp' = "NewCluster"
    /\ recConf' = conf
    /\ newRes' = res
    /\ again' = FALSE
    /\ lastPeer' = 0 /\ ret' = FALSE
    /\ UNCHANGED <<unresolved, closeUnreg, closes>>
    /\ IF conf.kind # "cluster" \/ ValidateErr(conf)
       THEN /\ opErr' = (IF conf.kind # "cluster" THEN "ErrInvalidConf" ELSE "ErrValidate")
            /\ recErr' = opErr'
            /\ calls' = << >>
            /\ UNCHANGED <<phase, clusterVars, registered, ctorName>>
       ELSE \E r \in {ReconcileOn([Type |-> "UNKNOWN", Endpoints |-> << >>,
                                     Domains |-> << >>, Resolver |-> res, log |-> "set"],
                                    registered, conf)} :
               /\ recErr' = r.err
               /\ calls' = r.calls
               /\ registered' = r.registered
               /\ IF r.err = "ErrRestartRequired"
                  THEN /\ opErr' = r.err
                       /\ UNCHANGED <<phase, clusterVars, ctorName>>
                  ELSE /\ opErr' = r.err
                       /\ phase' = "live"
                       /\ Name' = conf.name
                       /\ ctorName' = conf.name
                       /\ Type' = r.Type
                       /\ Endpoints' = r.Endpoints
                       /\ Domains' = r.Domains
                       /\ Resolver' = res
                       /\ log' = "set"

NewCluster(conf, res) ==
    /\ pcRec = "idle"
    /\ UNCHANGED <<stepVars, monVars>>
    /\ ObsReset
    /\ phase = "none"
    /\ lastOp' = "NewCluster"
    /\ recConf' = conf
    /\ newRes' = res
    /\ again' = FALSE
    /\ lastPeer' = 0 /\ ret' = FALSE
    /\ UNCHANGED <<unresolved, closeUnreg, closes>>
    /\ IF conf.kind # "cluster" \/ ValidateErr(conf)
       THEN /\ opErr' = (IF conf.kind # "cluster" THEN "ErrInvalidConf" ELSE "ErrValidate")
            /\ recErr' = opErr'
            /\ calls' = << >>
            /\ UNCHANGED <<phase, clusterVars, registered, ctorName>>
       ELSE \E r \in {ReconcileOn([Type |-> "UNKNOWN", Endpoints |-> << >>,
                                     Domains |-> << >>, Resolver |-> res, log |-> "set"],
                                    registered, conf)} :
               /\ recErr' = r.err
               /\ calls' = r.calls
               /\ registered' = r.registered
               /\ IF r.err # "nil" /\ r.err # "ErrRestartRequired"
                  THEN /\ opErr' = r.err
                       /\ UNCHANGED <<phase, clusterVars, ctorName>>
                  ELSE /\ opErr' = "nil"
                       /\ phase' = "live"
                       /\ Name' = conf.name
                       /\ ctorName' = conf.name
                       /\ Type' = r.Type
                       /\ Endpoints' = r.Endpoints
                       /\ Domains' = r.Domains
                       /\ Resolver' = res
                       /\ log' = "set"

\* ClusterFactory.New(nil): the inert zero-value Cluster.
FactoryNewNil ==
    /\ UNCHANGED <<newRes, monVars>>
    /\ ObsReset
    /\ ctorName' = ""
    /\ pcRec = "idle"
    /\ UNCHANGED stepVars
    /\ phase = "none"
    /\ phase' = "live"
    /\ Name' = "" /\ Type' = "UNKNOWN" /\ Endpoints' = << >> /\ Domains' = << >>
    /\ Resolver' = "nil" /\ log' = "nil"
    /\ lastOp' = "New" /\ opErr' = "nil" /\ calls' = << >> /\ again' = FALSE
    /\ lastPeer' = 0 /\ ret' = FALSE
    /\ UNCHANGED <<registered, unresolved, recConf, recErr, closeUnreg, closes>>

\* Cluster.Reconcile(conf).
ReconcileRenames(conf) ==
    /\ UNCHANGED <<newRes, ctorName, monVars>>
    /\ ObsReset
    /\ pcRec = "idle"
    /\ UNCHANGED stepVars
    /\ phase = "live"
    /\ \E r \in {ReconcileOn(Current, registered, conf)} :
       /\ Type' = r.Type
       /\ Endpoints' = r.Endpoints
       /\ Domains' = r.Domains
       /\ registered' = r.registered
       /\ unresolved' = unresolved \cap r.registered
       /\ calls' = r.calls
       /\ opErr' = r.err
       /\ recErr' = r.err
    /\ lastOp' = "Reconcile"
    /\ recConf' = conf
    /\ again' = (lastOp \in {"Reconcile", "NewCluster"} /\ recConf = conf)
    /\ closeUnreg' = Zero
    /\ closes' = 0
    /\ lastPeer' = 0 /\ ret' = FALSE
    /\ Name' = (IF recErr' = "nil" THEN conf.name ELSE Name)
    /\ UNCHANGED <<phase, Resolver, log>>

Reconcile(conf) ==
    /\ UNCHANGED <<newRes, ctorName, monVars>>
    /\ ObsReset
    /\ pcRec = "idle"
    /\ UNCHANGED stepVars
    /\ phase = "live"
    /\ \E r \in {ReconcileOn(Current, registered, conf)} :
       /\ Type' = r.Type
       /\ Endpoints' = r.Endpoints
       /\ Domains' = r.Domains
       /\ registered' = r.registered
       /\ unresolved' = unresolved \cap r.registered
       /\ calls' = r.calls
       /\ opErr' = r.err
       /\ recErr' = r.err
    /\ lastOp' = "Reconcile"
    /\ recConf' = conf
    /\ again' = (lastOp \in {"Reconcile", "NewCluster"} /\ recConf = conf)
    /\ closeUnreg' = Zero
    /\ closes' = 0
    /\ lastPeer' = 0 /\ ret' = FALSE
    /\ UNCHANGED <<phase, Name, Resolver, log>>

\* Cluster.Route(peer).
Route(peer) ==
    /\ UNCHANGED <<newRes, ctorName, monVars>>
    /\ ObsReset
    /\ UNCHANGED stepVars
    /\ phase = "live"
    /\ lastOp' = "Route"
    /\ lastPeer' = peer
    /\ IF log = "nil"
       THEN opErr' = "panic" /\ ret' = FALSE
       ELSE opErr' = "nil" /\ ret' = RouteOn(Current, registered, unresolved, peer)
    /\ calls' = << >>
    /\ again' = FALSE
    /\ recConf' = NoConf /\ recErr' = "nil"
    /\ closes' = 0 /\ closeUnreg' = Zero
    /\ UNCHANGED <<phase, clusterVars, registered, unresolved>>

\* Cluster.Close().
Close ==
    /\ UNCHANGED <<newRes, ctorName, monVars>>
    /\ ObsReset
    /\ pcRec = "idle"
    /\ UNCHANGED stepVars
    /\ phase = "live"
    /\ closes < MaxClose
    /\ closes' = closes + 1
    /\ lastOp' = "Close"
    /\ again' = FALSE
    /\ IF log = "nil"
       THEN /\ opErr' = "panic"
            /\ calls' = << >>
            /\ UNCHANGED <<registered, unresolved, closeUnreg>>
       ELSE \E cs \in {CloseCalls(Type, Domains)} :
            /\ opErr' = "nil"
            /\ calls' = cs
            /\ registered' = registered \ {cs[i].d : i \in 1 .. Len(cs)}
            /\ unresolved' = unresolved \cap registered'
            /\ closeUnreg' = [d \in AllNames |-> closeUnreg[d] + Count(cs, "Unregister", d)]
    /\ lastPeer' = 0 /\ ret' = FALSE
    /\ recConf' = NoConf /\ recErr' = "nil"
    /\ UNCHANGED <<phase, clusterVars>>

\* What a read leaves of the record of the operations before it.
ReadDone(op) ==
    /\ lastOp' = op /\ opErr' = "nil" /\ calls' = << >> /\ again' = FALSE
    /\ lastPeer' = 0 /\ ret' = FALSE
    /\ recConf' = NoConf /\ recErr' = "nil"
    /\ closes' = 0 /\ closeUnreg' = Zero

\* Cluster.GetConfig().
GetConfig ==
    /\ pcRec = "idle"
    /\ phase = "live"
    /\ gotConf' = GetConfigOn(Name, Current)
    /\ gotName' = "" /\ inspOld' = NoConf /\ inspNew' = NoConf /\ restart' = FALSE
    /\ ReadDone("GetConfig")
    /\ UNCHANGED <<phase, clusterVars, registered, unresolved, newRes, ctorName,
                   stepVars, monVars>>

\* Cluster.ObjectName().
ObjectName ==
    /\ pcRec = "idle"
    /\ phase = "live"
    /\ gotName' = Name
    /\ gotConf' = NoConf /\ inspOld' = NoConf /\ inspNew' = NoConf /\ restart' = FALSE
    /\ ReadDone("ObjectName")
    /\ UNCHANGED <<phase, clusterVars, registered, unresolved, newRes, ctorName,
                   stepVars, monVars>>

\* Cluster.Inspect(old, new); NoConf stands for a nil configuration.
Inspect(old, new) ==
    /\ pcRec = "idle"
    /\ phase = "live"
    /\ inspOld' = old /\ inspNew' = new
    /\ restart' = InspectOn(old, new)
    /\ gotConf' = NoConf /\ gotName' = ""
    /\ ReadDone("Inspect")
    /\ UNCHANGED <<phase, clusterVars, registered, unresolved, newRes, ctorName,
                   stepVars, monVars>>

\* The resolver's refresh: a domain loses or regains its resolved addresses.
ResolverRefresh(d) ==
    /\ UNCHANGED <<newRes, ctorName, monVars>>
    /\ ObsReset
    /\ pcRec = "idle"
    /\ UNCHANGED stepVars
    /\ d \in registered
    /\ unresolved' = (IF d \in unresolved THEN unresolved \ {d} ELSE unresolved \cup {d})
    /\ lastOp' = "Refresh"
    /\ opErr' = "nil"
    /\ calls' = << >>
    /\ again' = FALSE
    /\ lastPeer' = 0 /\ ret' = FALSE
    /\ recConf' = NoConf /\ recErr' = "nil"
    /\ closes' = 0 /\ closeUnreg' = Zero
    /\ UNCHANGED <<phase, clusterVars, registered>>

NextOver(confs) ==
    \/ \E conf \in confs, res \in {"nil", "dns"} : NewCluster(conf, res)
    \/ FactoryNewNil
    \/ \E conf \in confs : Reconcile(conf)
    \/ \E peer \in RoutePeers : Route(peer)
    \/ Close
    \/ \E d \in FlakyNames : ResolverRefresh(d)
    \/ GetConfig
    \/ ObjectName
    \/ \E old, new \in InspectConfs : Inspect(old, new)

Next == NextOver(StaticConfs)
NextDNS == NextOver(DNSConfs)

NextMapped == NextOver(MappedConfs)

\* Construction, then Reconcile and Route only.
NextHist ==
    \/ \E conf \in DNSConfs, res \in {"nil", "dns"} : NewCluster(conf, res)
    \/ \E conf \in DNSConfs : Reconcile(conf)
    \/ \E peer \in RoutePeers : Route(peer)
    \/ \E d \in FlakyNames : ResolverRefresh(d)

\* Rich STATIC endpoint lists.
Spec == Init /\ [][Next]_vars
\* Rich STRICT_DNS endpoint lists.
SpecDNS == Init /\ [][NextDNS]_vars
\* Bare addresses of every textual form.
SpecMapped == Init /\ [][NextMapped]_vars
\* Histories of Reconcile calls, no Close between them.
SpecHist == Init /\ [][NextHist]_vars

\* ------------------------------------------------------ monitoring Backend
\* Everything of the Cluster and of the resolver.
objectVars == <<phase, clusterVars, registered, unresolved, lastOp, opErr, recConf, recErr,
                calls, closeUnreg, closes, lastPeer, ret, newRes, again, stepVars,
                ctorName, obsVars>>

\* NewBackend(endpoint).
NewBackend(endpoint) ==
    /\ monPhase = "none"
    /\ monPhase' = "live"
    /\ \E m \in {NewBackendOn(endpoint)} :
          /\ bEndpoint' = m.Endpoint
          /\ httpServer' = m.httpServer
          /\ monErr' = m.err
    /\ serving' = "idle"
    /\ started' = FALSE
    /\ monOp' = "NewBackend" /\ monArg' = endpoint
    /\ UNCHANGED objectVars

\* b.Start().  The Backend counts as started when Start follows NewBackend.
Start ==
    /\ monPhase = "live"
    /\ serving' = Spawn(httpServer, serving)
    /\ started' = (started \/ monOp = "NewBackend")
    /\ monOp' = "Start"
    /\ UNCHANGED <<monPhase, bEndpoint, httpServer, monArg, monErr, objectVars>>

\* The goroutine of Start: ListenAndServe binds the address.
ListenAndServe ==
    /\ monPhase = "live"
    /\ serving = "starting"
    /\ serving' = "listening"
    /\ UNCHANGED <<monPhase, bEndpoint, httpServer, started, monOp, monArg, monErr, objectVars>>

\* b.Stop(), called by the owner of the Backend.
Stop ==
    /\ monPhase = "live"
    /\ serving' = Shutdown(httpServer, serving)
    /\ started' = FALSE
    /\ monOp' = "Stop"
    /\ UNCHANGED <<monPhase, bEndpoint, httpServer, monArg, monErr, objectVars>>

\* b.Reload(endpoint, log); the Backend it returns is the one kept.
Reload(endpoint) ==
    /\ monPhase = "live"
    /\ monOp' = "Reload" /\ monArg' = endpoint
    /\ IF endpoint = NoEndpoint
       THEN /\ serving' = Shutdown(httpServer, serving)
            /\ monErr' = FALSE
            /\ UNCHANGED <<bEndpoint, httpServer>>
       ELSE IF bEndpoint # endpoint
       THEN \E m \in {NewBackendOn(endpoint)} :
               /\ monErr' = m.err
               /\ IF ~m.err
                  THEN /\ bEndpoint' = m.Endpoint
                       /\ httpServer' = m.httpServer
                       /\ serving' = Spawn(m.httpServer, "idle")
                  ELSE /\ serving' = Shutdown(httpServer, serving)
                       /\ UNCHANGED <<bEndpoint, httpServer>>
       ELSE /\ monErr' = FALSE
            /\ UNCHANGED <<bEndpoint, httpServer, serving>>
    /\ UNCHANGED <<monPhase, started, objectVars>>

NextMon ==
    \/ \E endpoint \in MonEndpoints : NewBackend(endpoint)
    \/ Start
    \/ ListenAndServe
    \/ Stop
    \/ \E endpoint \in MonEndpoints : Reload(endpoint)

\* The monitoring Backend on its own.
SpecMon == Init /\ [][NextMon]_vars

\* ------------------------------------------- Reconcile, statement by statement
\* Route and Reconcile run on different goroutines with nothing ordering
\* them, so Route may run between any two statements of Reconcile.  Route
\* is kept as one step: each of these interleavings is one the scheduler
\* can produce, and finer ones only add outcomes.
Admitted(c, reg) == {p \in Peers : RouteOn(c, reg, unresolved, p)}

ConcLits == {HostOne, HostSix}
ConcConfs ==
    {Conf("c1", "STATIC", es) : es \in SeqsUpTo(ConcLits, MaxEndpoints)}
    \cup {Conf("c1", "STRICT_DNS", es) : es \in SeqsUpTo({HostName(0)}, 1)}
    \cup {Conf("c1", "bogus", << >>)}
\* The peers of the data path: the addresses of HostOne and of HostSix.
ConcPeers == {Pow2(V4Bits) + 1, 2 * Pow2(V4Bits) + 1}

\* Lines 67-76: the type assertion and Validate.
RecEnter(conf) ==
    /\ UNCHANGED <<newRes, ctorName, monVars>>
    /\ ObsReset
    /\ phase = "live"
    /\ pcRec = "idle"
    /\ lastOp' = "Reconcile"
    /\ recConf' = conf
    /\ recReq' = conf
    /\ permPre' = Admitted(Current, registered)
    /\ \E r \in {ReconcileOn(Current, registered, conf)} :
          permPost' = Admitted([Current EXCEPT !.Type = r.Type, !.Endpoints = r.Endpoints,
                                               !.Domains = r.Domains], r.registered)
    /\ IF conf.kind # "cluster" \/ ValidateErr(conf)
       THEN /\ opErr' = (IF conf.kind # "cluster" THEN "ErrInvalidConf" ELSE "ErrValidate")
            /\ pcRec' = "idle"
       ELSE /\ opErr' = "nil"
            /\ pcRec' = "settype"
    /\ recErr' = opErr'
    /\ calls' = << >> /\ again' = FALSE /\ lastPeer' = 0 /\ ret' = FALSE
    /\ closes' = 0 /\ closeUnreg' = Zero
    /\ UNCHANGED <<phase, clusterVars, registered, unresolved, recTodo, recAdded>>

\* Lines 77-82 and 115-119: the type tag is overwritten, then the branch
\* is entered: the subnet list is truncated, or the resolver is checked and
\* the domain lists are compared.
RecSetType ==
    /\ pcRec = "settype"
    /\ Type' = NewClusterType(recReq.type)
    /\ pcRec' = (IF Type' = "STATIC" THEN "truncate" ELSE "dns")
    /\ UNCHANGED <<phase, Name, Endpoints, Domains, Resolver, log, registered, unresolved,
                   lastOp, opErr, recConf, recErr, calls, closeUnreg, closes, lastPeer, ret,
                   again, newRes, ctorName, obsVars, monVars,
                   recReq, recTodo, recAdded, permPre, permPost>>

RecTruncate ==
    /\ pcRec = "truncate"
    /\ Endpoints' = << >>
    /\ recTodo' = recReq.endpoints
    /\ pcRec' = "append"
    /\ UNCHANGED <<phase, Name, Type, Domains, Resolver, log, registered, unresolved,
                   lastOp, opErr, recConf, recErr, calls, closeUnreg, closes, lastPeer, ret,
                   again, newRes, ctorName, obsVars, monVars,
                   recReq, recAdded, permPre, permPost>>

\* Lines 83-113: one iteration of the loop over req.Endpoints, or its end.
RecAppend ==
    /\ pcRec = "append"
    /\ IF recTodo = << >>
       THEN /\ pcRec' = "idle"
            /\ UNCHANGED <<Endpoints, recTodo>>
       ELSE /\ Endpoints' = Endpoints \o ParseEndpoint(Head(recTodo))
            /\ recTodo' = Tail(recTodo)
            /\ pcRec' = "append"
    /\ UNCHANGED <<phase, Name, Type, Domains, Resolver, log, registered, unresolved,
                   lastOp, opErr, recConf, recErr, calls, closeUnreg, closes, lastPeer, ret,
                   again, newRes, ctorName, obsVars, monVars,
                   recReq, recAdded, permPre, permPost>>

\* Lines 115-119.
RecDiff ==
    /\ pcRec = "dns"
    /\ IF Resolver = "nil"
       THEN /\ opErr' = "ErrNoResolver"
            /\ pcRec' = "idle"
            /\ UNCHANGED <<recTodo, recAdded>>
       ELSE /\ opErr' = "nil"
            /\ \E d \in {Diff(Domains, recReq.endpoints)} :
                  recTodo' = d.deleted /\ recAdded' = d.added
            /\ pcRec' = "delete"
    /\ recErr' = opErr'
    /\ UNCHANGED <<phase, clusterVars, registered, unresolved, lastOp, recConf, calls,
                   closeUnreg, closes, lastPeer, ret, again, newRes, ctorName, obsVars, monVars,
                   recReq, permPre, permPost>>

\* Lines 121-124: one iteration of the loop over deleted, or its end.
RecDelete ==
    /\ pcRec = "delete"
    /\ IF recTodo = << >>
       THEN /\ pcRec' = "add"
            /\ recTodo' = recAdded
            /\ UNCHANGED <<Domains, registered, unresolved, calls>>
       ELSE \E st \in {DeleteLoop([Domains |-> Domains, registered |-> registered,
                                   calls |-> calls], <<Head(recTodo)>>)} :
            /\ Domains' = st.Domains
            /\ registered' = st.registered
            /\ unresolved' = unresolved \cap st.registered
            /\ calls' = st.calls
            /\ recTodo' = Tail(recTodo)
            /\ pcRec' = "delete"
    /\ UNCHANGED <<phase, Name, Type, Endpoints, Resolver, log, lastOp, opErr, recConf,
                   recErr, closeUnreg, closes, lastPeer, ret, again, newRes, ctorName, obsVars, monVars,
                   recReq,
                   recAdded, permPre, permPost>>

\* Lines 126-130: one iteration of the loop over added, or its end.
RecAdd ==
    /\ pcRec = "add"
    /\ IF recTodo = << >>
       THEN /\ pcRec' = "idle"
            /\ UNCHANGED <<Domains, registered, calls, recTodo>>
       ELSE \E st \in {AddLoop([Domains |-> Domains, registered |-> registered,
                                calls |-> calls], <<Head(recTodo)>>)} :
            /\ Domains' = st.Domains
            /\ registered' = st.registered
            /\ calls' = st.calls
            /\ recTodo' = Tail(recTodo)
            /\ pcRec' = "add"
    /\ UNCHANGED <<phase, Name, Type, Endpoints, Resolver, log, unresolved, lastOp, opErr,
                   recConf, recErr, closeUnreg, closes, lastPeer, ret, again, newRes,
                   ctorName, obsVars, monVars, recReq, recAdded, permPre, permPost>>

\* Cluster.Route(peer) on the data path, at any point of a Reconcile.
RouteDuring(peer) ==
    /\ UNCHANGED <<newRes, ctorName, obsVars, monVars>>
    /\ phase = "live"
    /\ lastOp' = "Route"
    /\ lastPeer' = peer
    /\ opErr' = "nil"
    /\ ret' = RouteOn(Current, registered, unresolved, peer)
    /\ UNCHANGED <<phase, clusterVars, registered, unresolved, recConf, recErr, calls,
                   closeUnreg, closes, again, stepVars>>

NextConc ==
    \/ \E conf \in ConcConfs, res \in {"nil", "dns"} : NewCluster(conf, res)
    \/ \E conf \in ConcConfs : RecEnter(conf)
    \/ RecSetType
    \/ RecTruncate
    \/ RecAppend
    \/ RecDiff
    \/ RecDelete
    \/ RecAdd
    \/ \E peer \in ConcPeers : RouteDuring(peer)

\* Reconcile statement by statement, Route between any two statements.
SpecConc == Init /\ [][NextConc]_vars

\* ------------------------------------------------------------------ claims
Reconciled == phase = "live" /\ lastOp \in {"Reconcile", "NewCluster"}

\* The peer lies inside the subnet the literal e yields.
Covers(e, peer) == ParseEndpoint(e) # << >> /\ Contains(ParseEndpoint(e)[1], peer)

\* C1: after a successful Reconcile of a STATIC configuration with endpoint
\* list E, Route(p) is true exactly when p lies inside the subnet of some
\* valid entry of E, for every peer p.
C1_StaticRouteIsMembership ==
    (Reconciled /\ recErr = "nil" /\ recConf.type = "STATIC") =>
        \A p \in Peers :
            RouteOn(Current, registered, unresolved, p)
                <=> \E i \in 1 .. Len(recConf.endpoints) : Covers(recConf.endpoints[i], p)

\* Two overlapping entries admit a peer, and some peer is denied.
C1_Witness ==
    /\ Reconciled /\ recErr = "nil" /\ recConf.type = "STATIC"
    /\ \E i, j \in 1 .. Len(recConf.endpoints), p, q \in Peers :
          /\ recConf.endpoints[i] # recConf.endpoints[j]
          /\ Covers(recConf.endpoints[i], p) /\ Covers(recConf.endpoints[j], p)
          /\ RouteOn(Current, registered, unresolved, p)
          /\ ~RouteOn(Current, registered, unresolved, q)

\* C2: Route of a STRICT_DNS cluster returns true exactly when some domain
\* of Domains has a Lookup that succeeds with the peer among its addresses;
\* a failing Lookup counts as no match for that domain only.
C2_StrictDNSRouteIsLookup ==
    (lastOp = "Route" /\ opErr = "nil" /\ Type = "STRICT_DNS") =>
        (ret <=> \E d \in SeqSet(Domains) :
                    /\ ~Lookup(d, registered, unresolved).err
                    /\ lastPeer \in Lookup(d, registered, unresolved).hs)

\* Route returned true through a domain that follows one whose Lookup failed.
C2_Witness ==
    /\ lastOp = "Route" /\ opErr = "nil" /\ Type = "STRICT_DNS" /\ ret
    /\ Len(Domains) >= 2
    /\ Lookup(Domains[1], registered, unresolved).err
    /\ lastPeer \in Lookup(Domains[2], registered, unresolved).hs

\* C3: a Route that runs while a Reconcile is running returns what it would
\* return on the state before that Reconcile or on the state after it.
C3_RouteSeesWholeState ==
    (lastOp = "Route" /\ pcRec # "idle") =>
        (ret = (lastPeer \in permPre) \/ ret = (lastPeer \in permPost))

\* C4: a STRICT_DNS Reconcile from the domain set C to the requested list R
\* calls Unregister once for each domain of C \ R and for no other, calls
\* Register once for each domain of R \ C and for no other, and leaves
\* Domains set-equal to R when every registration succeeds.
C4_ReconcileDiffCalls ==
    [][(lastOp' \in {"Reconcile", "NewCluster"} /\ phase' = "live" /\ recErr' = "nil"
          /\ recConf'.type = "STRICT_DNS")
       => LET C == SeqSet(Domains)
              R == SeqSet(recConf'.endpoints)
          IN /\ \A d \in AllNames :
                   /\ CallCount(calls', "Unregister", d) = (IF d \in C \ R THEN 1 ELSE 0)
                   /\ CallCount(calls', "Register", d) = (IF d \in R \ C THEN 1 ELSE 0)
             /\ (\A i \in 1 .. Len(calls') : calls'[i].ok) => SeqSet(Domains') = R]_vars

\* One domain was unregistered, one kept without a call, one registered.
C4_Witness ==
    /\ lastOp = "Reconcile" /\ recErr = "nil" /\ recConf.type = "STRICT_DNS"
    /\ \E i, j \in 1 .. Len(calls) : calls[i].fn = "Unregister" /\ calls[j].fn = "Register" /\ calls[j].ok
    /\ \E d \in SeqSet(Domains) : \A i \in 1 .. Len(calls) : calls[i].d # d
    /\ SeqSet(Domains) = SeqSet(recConf.endpoints)

\* C5: in every state of a Cluster, Domains is exactly the set of domains
\* registered with the resolver on its behalf.
C5_DomainsAreRegistered == phase = "live" => SeqSet(Domains) = registered

\* C6: Close on a STRICT_DNS cluster unregisters each domain of Domains
\* once, and further Close calls add no Unregister call: each domain has
\* one Unregister call in total.
C6_CloseUnregistersOnce ==
    (lastOp = "Close" /\ opErr = "nil" /\ Type = "STRICT_DNS") =>
        \A d \in AllNames : closeUnreg[d] = (IF d \in SeqSet(Domains) THEN 1 ELSE 0)

\* C7: after Close returns, no domain the Cluster registered is still
\* registered on its behalf.
C7_CloseReleasesAll == (lastOp = "Close" /\ opErr = "nil") => registered = {}

\* C8: a Reconcile that repeats the configuration of the call before it
\* leaves Type, Endpoints and Domains as that call left them and registers
\* no domain that is registered already.
C8_ReconcileIdempotent ==
    [][(lastOp' = "Reconcile" /\ again')
       => /\ Type' = Type /\ Endpoints' = Endpoints /\ Domains' = Domains
          /\ \A i \in 1 .. Len(calls') :
                calls'[i].fn = "Register" => calls'[i].d \notin registered]_vars

\* The second of two equal calls ran, on subnets and on registered domains.
C8_Witness ==
    /\ lastOp = "Reconcile" /\ again /\ recErr = "nil"
    /\ Endpoints # << >> /\ Domains # << >> /\ SeqSet(Domains) \subseteq registered

\* A literal that is a well-formed CIDR or address text.
ValidLiteral(e) == (e.form = "cidr" /\ e.len <= FamBits(e.fam)) \/ e.form = "ip"

\* The subnet n is the one the well-formed literal e denotes.
Denotes(e, n) ==
    IF e.form = "cidr"
    THEN n.bits = FamBits(e.fam) /\ n.ones = e.len /\ n.ip = MaskIP(e.addr, e.len, n.bits)
    ELSE n.ones = n.bits /\ Contains(n, ParseIP(e))

\* The configuration is structurally invalid.
StructErr(conf) ==
    conf.kind # "cluster" \/ conf.name = "" \/ conf.type \notin {"STATIC", "STRICT_DNS"}

\* C9: a Reconcile of a structurally valid configuration returns no error
\* whatever its entries; the result holds one subnet for each well-formed
\* literal and none for the others (STATIC), or each domain whose
\* registration succeeds and none whose registration fails (STRICT_DNS).
C9_EntryFailuresAreSkipped ==
    (Reconciled /\ log = "set" /\ ~StructErr(recConf)
        /\ ~(recConf.type = "STRICT_DNS" /\ Resolver = "nil")) =>
        /\ recErr = "nil"
        /\ recConf.type = "STATIC" =>
              /\ Len(Endpoints) = Cardinality({i \in 1 .. Len(recConf.endpoints) :
                                                 ValidLiteral(recConf.endpoints[i])})
              /\ \A i \in 1 .. Len(recConf.endpoints) :
                    ValidLiteral(recConf.endpoints[i]) =>
                        \E k \in 1 .. Len(Endpoints) : Denotes(recConf.endpoints[i], Endpoints[k])
        /\ recConf.type = "STRICT_DNS" =>
              \A i \in 1 .. Len(recConf.endpoints) :
                  recConf.endpoints[i] \in SeqSet(Domains) <=> ~RegisterErr(recConf.endpoints[i])

\* An invalid literal next to a valid one: no error, one subnet.
C9_Witness ==
    /\ Reconciled /\ recErr = "nil" /\ recConf.type = "STATIC"
    /\ \E i, j \in 1 .. Len(recConf.endpoints) :
          ~ValidLiteral(recConf.endpoints[i]) /\ ValidLiteral(recConf.endpoints[j])
    /\ Len(Endpoints) = 1

Sorted(ds) == \A i, j \in 1 .. Len(ds) : i < j => ds[i].addr <= ds[j].addr

\* C11: GetConfig of a STRICT_DNS cluster returns the domains in
\* lexicographic order, whatever the order of Domains.
C11_GetConfigSorted ==
    (lastOp = "GetConfig" /\ Type = "STRICT_DNS") => Sorted(gotConf.endpoints)

\* C12: GetConfig of a STATIC cluster built from the endpoint list E
\* returns E as a set, and the name and the type it was configured with.
C12_GetConfigRoundTrip ==
    [][(lastOp' = "GetConfig" /\ lastOp = "NewCluster" /\ phase = "live"
          /\ recConf.type = "STATIC")
       => /\ SeqSet(gotConf'.endpoints) = SeqSet(recConf.endpoints)
          /\ gotConf'.name = recConf.name
          /\ gotConf'.type = recConf.type]_vars

NoDuplicate(s) == \A i, j \in 1 .. Len(s) : i # j => s[i] # s[j]

\* C13: after a successful Reconcile the active set (Endpoints for STATIC,
\* Domains for STRICT_DNS) holds no element twice, also when the requested
\* list repeats a literal or a domain.
C13_NoDuplicates ==
    (Reconciled /\ recErr = "nil") =>
        /\ Type = "STATIC" => NoDuplicate(Endpoints)
        /\ Type = "STRICT_DNS" => NoDuplicate(Domains)

\* C14: Inspect returns false for every pair of old and new configuration,
\* a missing one on either side and a change of type included, and changes
\* nothing of the Cluster or of the resolver.
C14_InspectNeverRestarts ==
    [][lastOp' = "Inspect"
       => /\ restart' = FALSE
          /\ UNCHANGED <<clusterVars, registered, unresolved>>]_vars

\* Inspect ran on a pair of configurations of different types.
C14_Witness ==
    /\ lastOp = "Inspect" /\ ~restart
    /\ inspOld.kind = "cluster" /\ inspNew.kind = "cluster"
    /\ inspOld.type # inspNew.type
    /\ Endpoints # << >>

\* C15: the Name of a Cluster that NewCluster returned (its logger is set)
\* is not empty; no Reconcile, Route, GetConfig, Inspect or Close changes
\* the Name, and ObjectName returns the name given at construction.
C15_NameFixed ==
    phase = "live" =>
        /\ Name = ctorName
        /\ log = "set" => Name # ""
        /\ lastOp = "ObjectName" => gotName = ctorName
        /\ lastOp = "GetConfig" => gotConf.name = ctorName

\* A Reconcile succeeded with a configuration that carries another name.
C15_Witness ==
    /\ lastOp = "Reconcile" /\ recErr = "nil"
    /\ recConf.name # "" /\ recConf.name # Name /\ Name # ""

\* C16: a bare address literal a in a STATIC list yields the host subnet of
\* a: a cluster reconciled with the list [a] admits the peer p exactly when
\* p is the address a.
C16_BareLiteralIsHost ==
    (Reconciled /\ recErr = "nil" /\ recConf.type = "STATIC"
        /\ Len(recConf.endpoints) = 1 /\ recConf.endpoints[1].form = "ip") =>
        \A p \in Peers :
            RouteOn(Current, registered, unresolved, p)
                <=> IPEqual(p, ParseIP(recConf.endpoints[1]))

\* C17: a Reconcile that returns an error leaves Type, Endpoints, Domains
\* and the registrations as they were, so that every Route answers as it
\* did before the call.
C17_FailedReconcileKeepsState ==
    [][(lastOp' = "Reconcile" /\ recErr' \notin {"nil", "panic"})
       => /\ UNCHANGED <<Type, Endpoints, Domains, registered>>
          /\ \A p \in Peers :
                RouteOn(Current, registered, unresolved, p)
                    <=> RouteOn(Current, registered, unresolved, p)']_vars

\* The Cluster NewCluster builds from conf on a resolver that tracks nothing.
Fresh(conf, res) ==
    ReconcileOn([Type |-> "UNKNOWN", Endpoints |-> << >>, Domains |-> << >>,
                 Resolver |-> res, log |-> "set"], {}, conf)

\* C18: after a sequence of Reconcile calls that ends with a successful
\* Reconcile of cfg, Route answers for every peer as it does on a Cluster
\* freshly built from cfg over a resolver that resolves alike; the set
\* that Type does not select has no influence.
C18_RouteIgnoresHistory ==
    (lastOp = "Reconcile" /\ recErr = "nil") =>
        \E f \in {Fresh(recConf, Resolver)} :
            /\ f.err = "nil"
            /\ \A p \in Peers :
                  RouteOn(Current, registered, unresolved, p)
                      <=> RouteOn([Current EXCEPT !.Type = f.Type, !.Endpoints = f.Endpoints,
                                                  !.Domains = f.Domains],
                                  f.registered, unresolved \cap f.registered, p)

\* A STATIC cluster that was STRICT_DNS before: its domains are still
\* there and resolve to a peer that Route denies.
C18_Witness ==
    /\ lastOp = "Reconcile" /\ recErr = "nil" /\ Type = "STATIC"
    /\ Endpoints # << >> /\ Domains # << >>
    /\ \E p \in Peers :
          /\ RouteStrictDNS(Domains, registered, unresolved, p)
          /\ ~RouteOn(Current, registered, unresolved, p)

\* The set that Type selects is empty.
ActiveEmpty ==
    \/ Type = "STATIC" /\ Endpoints = << >>
    \/ Type = "STRICT_DNS" /\ Domains = << >>

\* No entry of the configuration is usable: no literal is well formed
\* (STATIC), no domain can be registered (STRICT_DNS); the empty list too.
NoUsableEntry(conf) ==
    \A i \in 1 .. Len(conf.endpoints) :
        IF conf.type = "STATIC" THEN ~ValidLiteral(conf.endpoints[i])
        ELSE RegisterErr(conf.endpoints[i])

\* C19: a Reconcile of a structurally valid configuration without a usable
\* entry reports success and leaves the active set empty, and a Cluster
\* whose active set is empty denies every peer.
C19_EmptyDeniesAll ==
    /\ (Reconciled /\ log = "set" /\ ~StructErr(recConf)
          /\ ~(recConf.type = "STRICT_DNS" /\ Resolver = "nil") /\ NoUsableEntry(recConf))
        => (recErr = "nil" /\ ActiveEmpty)
    /\ (phase = "live" /\ ActiveEmpty)
        => \A p \in Peers : ~RouteOn(Current, registered, unresolved, p)
    /\ (lastOp = "Route" /\ opErr = "nil" /\ ActiveEmpty) => ~ret

\* A Reconcile of a STATIC list with invalid literals only succeeded, left
\* no subnet, and every peer is denied.
C19_Witness ==
    /\ Reconciled /\ recErr = "nil" /\ recConf.type = "STATIC"
    /\ recConf.endpoints # << >> /\ ActiveEmpty
    /\ \A p \in Peers : ~RouteOn(Current, registered, unresolved, p)

\* The endpoint is a well-formed URL with a host.
HasHost(endpoint) == ~ParseURL(endpoint).err /\ ParseURL(endpoint).host # ""

\* C20: on a started Backend, after a Reload with a well-formed endpoint
\* that has a host the Backend holds the server of that endpoint, launched
\* and not shut down; after a Reload with the empty endpoint the server is
\* stopped.
C20_ReloadServes ==
    (monOp = "Reload" /\ started) =>
        /\ monArg = NoEndpoint => serving \notin {"starting", "listening"}
        /\ HasHost(monArg) =>
              /\ bEndpoint = monArg
              /\ httpServer = NewBackendOn(monArg).httpServer
              /\ serving \in {"starting", "listening"}

====
